---- MODULE Spec2Model ----
(***************************************************************************)
(* Pleinchamp forecast client: the fetch / cache / reshape pipeline of     *)
(* custom_components/pleinchamp/pleinchamp_api.py (class Pleinchamp).      *)
(*                                                                         *)
(* Time is counted in seconds from 2025-10-24T00:00:00Z.  The window holds *)
(* the end of summer time in Europe/Paris (2025-10-26T01:00:00Z), so the   *)
(* conversion to local time is the one ZoneInfo("Europe/Paris") performs   *)
(* on these dates, both offsets included.                                  *)
(***************************************************************************)
EXTENDS Integers, Sequences, FiniteSets, TLC

\* ------------------------------------------------------------------ bounds
\* Number of coroutines that may call the accessors concurrently.
NTasks == 2
\* Number of accessor calls started in one behaviour.
MaxCalls == 2
\* Number of clock advances in one behaviour.
MaxTicks == 1
\* Number of config flows started in one behaviour.
MaxFlows == 2
\* Number of calls of _retrieve_data_pleinchamp, and of clock advances between them.
MaxRetrieves == 3
MaxWaits == 3

\* ------------------------------------------------------- program constants
DEFAULT_CACHE_TIMEOUT == 1770
DEFAULT_FORECAST_INTERVAL == 5
FORECAST_INTERVAL_MIN == 1
FORECAST_INTERVAL_MAX == 240
\* range(6) of the hourly fan-out
HourlyDays == 6

Kinds == {"current", "daily", "hourly"}
Tasks == 1..NTasks
\* The tasks that may run the hourly fan-out: one, so that two fan-outs never
\* overlap (every other pair of calls may).
HourlyTasks == {1}

\* ------------------------------------------------------------------- time
Hour == 60 * 60
Day == 24 * Hour

\* 2025-10-26T01:00:00Z: Europe/Paris goes from UTC+2 back to UTC+1.
DstEnd == 2 * Day + Hour

\* utcoffset of ZoneInfo("Europe/Paris") at the UTC instant t
ParisOffset(t) == IF t < DstEnd THEN 2 * Hour ELSE Hour

\* datetime.astimezone(tz) / datetime.now(tz): the local wall clock, in seconds
ParisLocal(t) == t + ParisOffset(t)

\* .date() of a local datetime: the local day number
LocalDate(t) == ParisLocal(t) \div Day

\* .hour of a local datetime
LocalHour(t) == (ParisLocal(t) % Day) \div Hour

\* date.isoformat(), day 0 being 2025-10-24
IsoDate(d) ==
    CASE d = 0 -> "2025-10-24" [] d = 1 -> "2025-10-25" [] d = 2 -> "2025-10-26"
      [] d = 3 -> "2025-10-27" [] d = 4 -> "2025-10-28" [] d = 5 -> "2025-10-29"
      [] d = 6 -> "2025-10-30" [] d = 7 -> "2025-10-31" [] d = 8 -> "2025-11-01"
      [] d = 9 -> "2025-11-02" [] OTHER -> "out-of-window"

\* An ISO-8601 timestamp string of the upstream API: the instant it denotes
\* and the way its UTC offset is written ("Z" or "+00:00").
Stamp(t, sfx) == [t |-> t, sfx |-> sfx]

\* date_str.replace("Z", "+00:00")
ReplaceZ(date_str) == [date_str EXCEPT !.sfx = "+00:00"]

\* datetime.fromisoformat(date_str.replace("Z", "+00:00")): the instant
FromIso(date_str) == ReplaceZ(date_str).t

\* mutant: the datetime is left in UTC
LocalIsoUtc(t) == [local |-> t, offset |-> 0]

\* dt.isoformat() of a Paris datetime: local wall clock and offset
LocalIso(t) == [local |-> ParisLocal(t), offset |-> ParisOffset(t)]

\* ----------------------------------------------------------- dictionaries
\* d[k][f] = v on a defaultdict(dict)
PutField(b, f, v) == IF f \in DOMAIN b THEN [b EXCEPT ![f] = v] ELSE b @@ (f :> v)

\* mutant: the bucket is replaced, not completed
PutReplacing(result, k, f, v) ==
    IF k \in DOMAIN result
    THEN [result EXCEPT ![k] = (f :> v)]
    ELSE result @@ (k :> (f :> v))

Put(result, k, f, v) ==
    IF k \in DOMAIN result
    THEN [result EXCEPT ![k] = PutField(@, f, v)]
    ELSE result @@ (k :> (f :> v))

\* the empty dict {}
EmptyDict == << >>

\* A reshape pass either returns a dict or raises (KeyError, AttributeError).
Returned(v) == [ok |-> TRUE, v |-> v]
Raised == [ok |-> FALSE, v |-> EmptyDict]

\* entry["date"], entry["value"]: both keys must be present
HasFields(entry) == {"date", "value"} \subseteq DOMAIN entry

\* ------------------------------------------------------------ daily pivot
\* mutant: the day index counts from 0
IndexJourFromZero(date_str, today) == LocalDate(FromIso(date_str)) - today

\* index_jour = (date_courte - today).days + 1
IndexJour(date_str, today) == (LocalDate(FromIso(date_str)) - today) + 1

\* mutant: the entries of yesterday are kept too
DailyEntryKeepsYesterday(result, metric, entry, today) ==
    LET index_jour == IndexJour(entry.date, today)
        date_courte == LocalDate(FromIso(entry.date))
    IN  IF index_jour >= 0
        THEN Put(Put(result, index_jour, "date", IsoDate(date_courte)),
                 index_jour, metric, entry.value)
        ELSE result

\* body of the inner loop of reorganiser_par_date for one entry
DailyEntry(result, metric, entry, today) ==
    LET index_jour == IndexJour(entry.date, today)
        date_courte == LocalDate(FromIso(entry.date))
    IN  IF index_jour > 0
        THEN Put(Put(result, index_jour, "date", IsoDate(date_courte)),
                 index_jour, metric, entry.value)
        ELSE result

RECURSIVE DailyEntries(_, _, _, _)
\* for entry in entries: ... ; acc is Returned(result) or Raised
DailyEntries(acc, metric, entries, today) ==
    IF ~acc.ok \/ entries = << >> THEN acc
    ELSE IF ~HasFields(Head(entries)) THEN Raised
    ELSE DailyEntries(Returned(DailyEntry(acc.v, metric, Head(entries), today)),
                      metric, Tail(entries), today)

RECURSIVE DailyMetrics(_, _, _)
\* for metric, entries in data.items(): ...
DailyMetrics(acc, items, today) ==
    IF ~acc.ok \/ items = << >> THEN acc
    ELSE IF Head(items)[1] = "nbMetrics" THEN DailyMetrics(acc, Tail(items), today)
    ELSE DailyMetrics(DailyEntries(acc, Head(items)[1], Head(items)[2], today),
                      Tail(items), today)

\* reorganiser_par_date(data) run at the instant t
reorganiser_par_date(data, t) ==
    IF data.shape # "object" THEN Raised
    ELSE DailyMetrics(Returned(EmptyDict), data.items, LocalDate(t))

\* ----------------------------------------------------------- hourly pivot
\* f"{dt.date()}-{dt.hour}"
HourKey(date_str) ==
    <<IsoDate(LocalDate(FromIso(date_str))), LocalHour(FromIso(date_str))>>

HourlyEntry(result, metric, entry) ==
    Put(Put(result, HourKey(entry.date), "datetime", ReplaceZ(entry.date)),
        HourKey(entry.date), metric, entry.value)

RECURSIVE HourlyEntries(_, _, _)
HourlyEntries(acc, metric, entries) ==
    IF ~acc.ok \/ entries = << >> THEN acc
    ELSE IF ~HasFields(Head(entries)) THEN Raised
    ELSE HourlyEntries(Returned(HourlyEntry(acc.v, metric, Head(entries))),
                       metric, Tail(entries))

RECURSIVE HourlyMetrics(_, _)
HourlyMetrics(acc, items) ==
    IF ~acc.ok \/ items = << >> THEN acc
    ELSE HourlyMetrics(HourlyEntries(acc, Head(items)[1], Head(items)[2]), Tail(items))

\* reorganiser_par_heure(data); data is the combined dict built by the fan-out
reorganiser_par_heure(items) == HourlyMetrics(Returned(EmptyDict), items)

\* ---------------------------------------------------------- current pivot
\* body of the loop of reorganiser for one metric
CurrentMetric(result, metric, entry) ==
    LET r1 == IF metric = "airTemperature"
              THEN PutField(result, "datetime", LocalIso(FromIso(entry.date)))
              ELSE result
    IN  PutField(r1, metric, entry.value)

RECURSIVE CurrentMetricsKeepsSentinel(_, _)
\* mutant: the sentinel is copied to the result like a metric
CurrentMetricsKeepsSentinel(acc, items) ==
    IF ~acc.ok \/ items = << >> THEN acc
    ELSE IF Head(items)[1] = "nbMetrics"
         THEN CurrentMetricsKeepsSentinel(
                 Returned(PutField(acc.v, "nbMetrics", Head(items)[2])), Tail(items))
    ELSE IF Head(items)[1] = "airTemperature" /\ "date" \notin DOMAIN Head(items)[2]
         THEN Raised
    ELSE IF "value" \notin DOMAIN Head(items)[2] THEN Raised
    ELSE CurrentMetricsKeepsSentinel(
            Returned(CurrentMetric(acc.v, Head(items)[1], Head(items)[2])), Tail(items))

RECURSIVE CurrentMetrics(_, _)
CurrentMetrics(acc, items) ==
    IF ~acc.ok \/ items = << >> THEN acc
    ELSE IF Head(items)[1] = "nbMetrics" THEN CurrentMetrics(acc, Tail(items))
    ELSE IF Head(items)[1] = "airTemperature" /\ "date" \notin DOMAIN Head(items)[2]
         THEN Raised
    ELSE IF "value" \notin DOMAIN Head(items)[2] THEN Raised
    ELSE CurrentMetrics(Returned(CurrentMetric(acc.v, Head(items)[1], Head(items)[2])),
                        Tail(items))

\* reorganiser(data)
reorganiser(data) ==
    IF data.shape # "object" THEN Raised
    ELSE CurrentMetrics(Returned(EmptyDict), data.items)

\* --------------------------------------------------------------- upstream
\* What the API may answer.  A JSON object is the sequence of its members in
\* document order (a Python dict keeps it); a body that is valid JSON but no
\* object has shape "array".
Object(items) == [shape |-> "object", items |-> items]
ArrayBody == [shape |-> "array", items |-> << >>]

Rec(t, value) == [date |-> Stamp(t, "Z"), value |-> value]

\* forecasts-15d: one record per day and metric, dated 00:00Z; variants 1 and 2
\* are two successive forecasts, 3 holds past days only, 4 has a record with
\* no "date", 5 is no JSON object.
DailyBodyOf(v) ==
    CASE v \in {1, 2} ->
           Object(<< <<"nbMetrics", 2>>,
                     <<"maxAirTemperature",
                       <<Rec(0, 10 * v), Rec(Day, 10 * v + 1), Rec(2 * Day, 10 * v + 2)>> >>,
                     <<"weatherCode", <<Rec(Day, v), Rec(2 * Day, 100 + v)>> >> >>)
      [] v = 3 -> Object(<< <<"nbMetrics", 1>>, <<"maxAirTemperature", <<Rec(0, 9)>> >> >>)
      [] v = 4 -> Object(<< <<"nbMetrics", 1>>,
                            <<"maxAirTemperature", <<Rec(Day, 11), [value |-> 12]>> >> >>)
      [] OTHER -> ArrayBody
DailyVariants == 1..5

\* forecasts-summary: one record per metric; 3 holds the sentinel only, 4 has a
\* record with no "value", 5 is no JSON object.
CurrentBodyOf(v) ==
    CASE v \in {1, 2} ->
           Object(<< <<"nbMetrics", 3>>,
                     <<"airTemperature", Rec(Day + 21 * Hour + 30 * 60, 14 + v)>>,
                     <<"windDirection", [date |-> Stamp(Day + 21 * Hour, "Z"),
                                         value |-> [degree |-> 90 * v, cardinal |-> "E"]]>>,
                     <<"weatherCode", Rec(Day + 21 * Hour, 100 + v)>> >>)
      [] v = 3 -> Object(<< <<"nbMetrics", 0>> >>)
      [] v = 4 -> Object(<< <<"nbMetrics", 1>>,
                            <<"airTemperature", [date |-> Stamp(Day + 21 * Hour, "Z")]>> >>)
      [] OTHER -> ArrayBody
CurrentVariants == 1..5

\* forecasts-hourly&date=<d>: records of the requested day d (a day number);
\* variant 1 is the forecast, 2 is no JSON object.
HourlyBodyOf(d, v) ==
    CASE v = 1 ->
           Object(<< <<"nbMetrics", 2>>,
                     <<"airTemperature",
                       <<Rec(d * Day, 10 * d), Rec(d * Day + Hour, 10 * d + 1)>> >>,
                     <<"weatherCode", <<Rec(d * Day, 1)>> >> >>)
      [] OTHER -> ArrayBody
HourlyVariants == 1..2

\* except (asyncio.TimeoutError, ClientError, json.JSONDecodeError):
\* a timeout, a transport error, raise_for_status() (ClientResponseError, a
\* ClientError) and a body that is not JSON.
Errors == {"timeout", "transport", "http_status", "bad_json"}

\* ------------------------------------------------------------------ state
VARIABLES
    now,            \* datetime.now(UTC), in seconds
    ticks,          \* clock advances so far
    calls,          \* accessor calls started so far
    last_fetch,     \* _last_<kind>_forecast_fetch: [set, at]; set = FALSE is None
    cached,         \* _cached_<kind>_forecast_data: [set, v]; set = FALSE is None
    pc,             \* per task: "idle", or "get" while awaiting session.get
    kind,           \* per task: the accessor it runs or ran last
    i,              \* per task: loop index of the hourly fan-out
    combined_data,  \* per task: combined_data of the hourly fan-out
    reqs,           \* per task: the GET requests of its call, in order of issue
    resp,           \* per task: what each request of its call got, in order
    began,          \* per task: the time its call started
    logged,         \* per task: the error its daily or current call caught (the fan-out
                    \* goes on whatever the error was, and its log line is not kept)
    ret,            \* per task: what its last call gave its caller
    fetched,        \* per kind: payload and time of the last fetch with no failed request
    piv,            \* a reshape pass run on its own: mode, input, time and outcome
    weather,        \* a property of the weather entity read on its own: input and value
    getall,         \* get_all_forecasts_datas run by task 1: position and result
    config,         \* the config flow: handler data, submitted input, result, entries
    astro           \* _retrieve_data_pleinchamp on one object: its fields and position

vars == <<now, ticks, calls, last_fetch, cached, pc, kind, i, combined_data,
          reqs, resp, began, logged, ret, fetched, piv, weather, getall, config, astro>>

None == [set |-> FALSE, at |-> 0]
NoData == [set |-> FALSE, v |-> EmptyDict]
NoPivot == [mode |-> "none"]
NoReading == [op |-> "none"]
NoGetAll == [pc |-> "idle", result |-> EmptyDict]
NoReturn == [status |-> "none", v |-> EmptyDict, hit |-> FALSE]
NoResult == [type |-> "none", title |-> "", data |-> EmptyDict]

\* PleinchampConfigFlowHandler.__init__ (self.data = {}), no entry configured yet
NoFlow == [flows |-> 1, step |-> "init", data |-> EmptyDict, user_input |-> EmptyDict,
           result |-> NoResult, entries |-> {}]

\* 2025-10-25T21:30:31Z, 23:30:31 in Paris: an entry fetched now is still fresh
\* at midnight, and stale one second later
StartTime == Day + 22 * Hour - (DEFAULT_CACHE_TIMEOUT - 1)

\* The object _retrieve_data_pleinchamp works on.  Its constructor is not part of
\* the source: the timestamp starts DEFAULT_CACHE_TIMEOUT + 1 seconds in the
\* past, so that the first call passes the gate, and no data is stored yet.
NoAstro == [timestamp |-> StartTime - (DEFAULT_CACHE_TIMEOUT + 1),
            data |-> [kind |-> "unset"],
            calls |-> 0, at |-> 0, passed |-> FALSE, upstream |-> "none",
            outcome |-> "none", attempts |-> << >>, requests |-> << >>]

\* Pleinchamp.__init__
Init ==
    /\ now = StartTime
    /\ ticks = 0
    /\ calls = 0
    /\ last_fetch = [k \in Kinds |-> None]
    /\ cached = [k \in Kinds |-> NoData]
    /\ pc = [t \in Tasks |-> "idle"]
    /\ kind = [t \in Tasks |-> "daily"]
    /\ i = [t \in Tasks |-> 0]
    /\ combined_data = [t \in Tasks |-> << >>]
    /\ reqs = [t \in Tasks |-> << >>]
    /\ resp = [t \in Tasks |-> << >>]
    /\ began = [t \in Tasks |-> 0]
    /\ logged = [t \in Tasks |-> "none"]
    /\ ret = [t \in Tasks |-> NoReturn]
    /\ fetched = [k \in Kinds |-> [set |-> FALSE, v |-> EmptyDict, at |-> 0]]
    /\ piv = NoPivot
    /\ weather = NoReading
    /\ getall = NoGetAll
    /\ config = NoFlow
    /\ astro = NoAstro

\* ------------------------------------------------------------------ clock
\* Time passes between any two steps: by the TTL, or by one second less.
TickSteps == {DEFAULT_CACHE_TIMEOUT - 1, DEFAULT_CACHE_TIMEOUT}

Tick ==
    /\ ticks < MaxTicks
    /\ \E d \in TickSteps : now' = now + d
    /\ ticks' = ticks + 1
    /\ UNCHANGED <<calls, last_fetch, cached, pc, kind, i, combined_data,
                   reqs, resp, began, logged, ret, fetched, piv, weather, getall, config, astro>>

\* ------------------------------------------------------------- cache gate
\* bool(dict): an empty dict is falsy, like None
Truthy(c) == c.set /\ c.v # EmptyDict

\* mutant: an entry exactly TTL old still counts as fresh
FreshInclusive(last, t) == t - last.at <= DEFAULT_CACHE_TIMEOUT

\* (datetime.now(UTC) - last).total_seconds() < DEFAULT_CACHE_TIMEOUT
Fresh(last, t) == t - last.at < DEFAULT_CACHE_TIMEOUT

\* if self._cached_..._data and self._last_..._fetch: if ... < DEFAULT_CACHE_TIMEOUT
CacheHit(k) == Truthy(cached[k]) /\ last_fetch[k].set /\ Fresh(last_fetch[k], now)

\* One GET: the endpoint's kind and, for the hourly endpoint, the day asked for
\* (a day number, -1 when the URL has no date) and the &date= parameter.
NoDay == 0 - 1
Request(k, d) == [kind |-> k, day |-> d, date |-> IF d = NoDay THEN "" ELSE IsoDate(d)]

\* return self._cached_..._data at the gate
ServeCached(t, k) ==
    /\ ret' = [ret EXCEPT ![t] = [status |-> "returned", v |-> cached[k].v,
                                  hit |-> TRUE]]
    /\ kind' = [kind EXCEPT ![t] = k]
    /\ reqs' = [reqs EXCEPT ![t] = << >>]
    /\ resp' = [resp EXCEPT ![t] = << >>]
    /\ logged' = [logged EXCEPT ![t] = "none"]
    /\ UNCHANGED <<pc, i, combined_data, last_fetch, cached, fetched>>

\* the call goes on to session.get(url) and awaits the response
IssueFirst(t, k, d) ==
    /\ pc' = [pc EXCEPT ![t] = "get"]
    /\ kind' = [kind EXCEPT ![t] = k]
    /\ i' = [i EXCEPT ![t] = 0]
    /\ combined_data' = [combined_data EXCEPT ![t] = << >>]
    /\ reqs' = [reqs EXCEPT ![t] = <<Request(k, d)>>]
    /\ resp' = [resp EXCEPT ![t] = << >>]
    /\ logged' = [logged EXCEPT ![t] = "none"]
    /\ ret' = [ret EXCEPT ![t] = NoReturn]
    /\ UNCHANGED <<last_fetch, cached, fetched>>

\* mutant: a call that finds a call of its kind in flight is served the cached
\* payload and issues nothing
BeginJoins(t, k, d) ==
    /\ pc[t] = "idle"
    /\ calls < MaxCalls
    /\ calls' = calls + 1
    /\ began' = [began EXCEPT ![t] = now]
    /\ UNCHANGED <<now, ticks, piv, weather, getall, config, astro>>
    /\ IF CacheHit(k) \/ \E u \in Tasks : pc[u] = "get" /\ kind[u] = k
       THEN ServeCached(t, k) ELSE IssueFirst(t, k, d)

\* A call starts: the gate, then a return from the cache or the first request.
Begin(t, k, d) ==
    /\ pc[t] = "idle"
    /\ calls < MaxCalls
    /\ calls' = calls + 1
    /\ began' = [began EXCEPT ![t] = now]
    /\ UNCHANGED <<now, ticks, piv, weather, getall, config, astro>>
    /\ IF CacheHit(k) THEN ServeCached(t, k) ELSE IssueFirst(t, k, d)

\* The call ends: v goes to the caller (status "returned" or "raised").
Finish(t, status, v) ==
    /\ pc' = [pc EXCEPT ![t] = "idle"]
    /\ ret' = [ret EXCEPT ![t] = [status |-> status, v |-> v, hit |-> FALSE]]

\* mutant: the new payload is merged into the cached one
StoreMerging(k, data) ==
    /\ last_fetch' = [last_fetch EXCEPT ![k] = [set |-> TRUE, at |-> now]]
    /\ cached' = [cached EXCEPT ![k] = [set |-> TRUE, v |-> data @@ cached[k].v]]

\* mutant: the timestamp is written and the payload is not (the state between
\* the two assignments, were there an await between them)
StoreStampOnly(k, data) ==
    /\ last_fetch' = [last_fetch EXCEPT ![k] = [set |-> TRUE, at |-> now]]
    /\ UNCHANGED cached

\* mutant: one timestamp shared by the three kinds
StoreSharedStamp(k, data) ==
    /\ last_fetch' = [x \in Kinds |-> [set |-> TRUE, at |-> now]]
    /\ cached' = [cached EXCEPT ![k] = [set |-> TRUE, v |-> data]]

\* self._last_..._fetch = datetime.now(UTC); self._cached_..._data = data
Store(k, data) ==
    /\ last_fetch' = [last_fetch EXCEPT ![k] = [set |-> TRUE, at |-> now]]
    /\ cached' = [cached EXCEPT ![k] = [set |-> TRUE, v |-> data]]

\* What a request got: an error of the except clause, or body variant v.
Failed == [ok |-> FALSE, v |-> 0]
Got(v) == [ok |-> TRUE, v |-> v]

\* the fetch of a call had no failed request
AllOk(rs) == \A j \in 1..Len(rs) : rs[j].ok

Record(k, data) == fetched' = [fetched EXCEPT ![k] = [set |-> TRUE, v |-> data, at |-> now]]

\* mutant: a failed fetch invalidates the entry
SoftFailInvalidates(t, e) ==
    /\ logged' = [logged EXCEPT ![t] = e]
    /\ resp' = [resp EXCEPT ![t] = Append(@, Failed)]
    /\ Finish(t, "returned", EmptyDict)
    /\ last_fetch' = [last_fetch EXCEPT ![kind[t]] = None]
    /\ cached' = [cached EXCEPT ![kind[t]] = NoData]
    /\ UNCHANGED <<now, ticks, calls, kind, i, combined_data,
                   reqs, began, fetched, piv, weather, getall, config, astro>>

\* mutant: a failed fetch falls back to the cached payload
SoftFailFallsBack(t, e) ==
    /\ logged' = [logged EXCEPT ![t] = e]
    /\ resp' = [resp EXCEPT ![t] = Append(@, Failed)]
    /\ Finish(t, "returned", cached[kind[t]].v)
    /\ UNCHANGED <<now, ticks, calls, last_fetch, cached, kind, i, combined_data,
                   reqs, began, fetched, piv, weather, getall, config, astro>>

\* except (...) as err: _LOGGER.error(...); return {}
SoftFail(t, e) ==
    /\ logged' = [logged EXCEPT ![t] = e]
    /\ resp' = [resp EXCEPT ![t] = Append(@, Failed)]
    /\ Finish(t, "returned", EmptyDict)
    /\ UNCHANGED <<now, ticks, calls, last_fetch, cached, kind, i, combined_data,
                   reqs, began, fetched, piv, weather, getall, config, astro>>

\* data = reshape(data); store; return data -- or the reshape raises
Reshaped(t, k, v, r) ==
    /\ resp' = [resp EXCEPT ![t] = Append(@, Got(v))]
    /\ IF r.ok
       THEN Store(k, r.v) /\ Record(k, r.v) /\ Finish(t, "returned", r.v)
       ELSE Finish(t, "raised", EmptyDict) /\ UNCHANGED <<last_fetch, cached, fetched>>
    /\ UNCHANGED <<now, ticks, calls, kind, i, combined_data, reqs, began, logged, piv, weather, getall, config, astro>>

\* ------------------------------------------------------------------ daily
\* fetch_daily_forecast_datas, up to the first await
DailyCall(t) == Begin(t, "daily", NoDay)

\* fetch_daily_forecast_datas: the request fails
DailyError(t) ==
    /\ pc[t] = "get" /\ kind[t] = "daily"
    /\ \E e \in Errors : SoftFail(t, e)

\* fetch_daily_forecast_datas: the response arrives with a JSON body
DailyResponse(t) ==
    /\ pc[t] = "get" /\ kind[t] = "daily"
    /\ \E v \in DailyVariants :
          Reshaped(t, "daily", v, reorganiser_par_date(DailyBodyOf(v), now))

\* ---------------------------------------------------------------- current
CurrentCall(t) == Begin(t, "current", NoDay)

CurrentError(t) ==
    /\ pc[t] = "get" /\ kind[t] = "current"
    /\ \E e \in Errors : SoftFail(t, e)

CurrentResponse(t) ==
    /\ pc[t] = "get" /\ kind[t] = "current"
    /\ \E v \in CurrentVariants :
          Reshaped(t, "current", v, reorganiser(CurrentBodyOf(v)))

\* ----------------------------------------------------------------- hourly
\* position of metric in the combined dict, 0 when absent
RECURSIVE IndexOf(_, _)
IndexOf(items, metric) ==
    IF items = << >> THEN 0
    ELSE IF items[Len(items)][1] = metric THEN Len(items)
    ELSE IndexOf(SubSeq(items, 1, Len(items) - 1), metric)

\* combined_data.setdefault(metric, []).extend(entries)
Extend(items, metric, entries) ==
    IF IndexOf(items, metric) = 0
    THEN Append(items, <<metric, entries>>)
    ELSE [items EXCEPT ![IndexOf(items, metric)] = <<metric, @[2] \o entries>>]

RECURSIVE Merge(_, _)
\* for metric, entries in day_data.items(): skip nbMetrics, extend
Merge(items, day_items) ==
    IF day_items = << >> THEN items
    ELSE IF Head(day_items)[1] = "nbMetrics" THEN Merge(items, Tail(day_items))
    ELSE Merge(Extend(items, Head(day_items)[1], Head(day_items)[2]), Tail(day_items))

\* day = (datetime.now(tz) + timedelta(days=i)).date()
DayOfLoop(j) == LocalDate(now) + j

\* fetch_hourly_forecast_datas, up to the first await
HourlyCall(t) == Begin(t, "hourly", DayOfLoop(0))

\* After the body of iteration i[t]: the next iteration's request, or, after
\* the last one, reorganiser_par_heure, the store and the return.
HourlyNext(t, combined, rs) ==
    /\ resp' = [resp EXCEPT ![t] = rs]
    /\ combined_data' = [combined_data EXCEPT ![t] = combined]
    /\ IF i[t] + 1 < HourlyDays
       THEN /\ i' = [i EXCEPT ![t] = @ + 1]
            /\ reqs' = [reqs EXCEPT ![t] = Append(@, Request("hourly", DayOfLoop(i[t] + 1)))]
            /\ UNCHANGED <<pc, ret, last_fetch, cached, fetched>>
       ELSE /\ UNCHANGED <<i, reqs>>
            /\ LET r == reorganiser_par_heure(combined)
               IN  IF r.ok
                   THEN /\ Store("hourly", r.v)
                        /\ Finish(t, "returned", r.v)
                        /\ IF AllOk(rs) THEN Record("hourly", r.v) ELSE UNCHANGED fetched
                   ELSE /\ Finish(t, "raised", EmptyDict)
                        /\ UNCHANGED <<last_fetch, cached, fetched>>
    /\ UNCHANGED <<now, ticks, calls, kind, began, piv, weather, getall, config, astro>>

\* mutant: a failed day request ends the fan-out with an empty result
HourlyErrorAborts(t) ==
    /\ pc[t] = "get" /\ kind[t] = "hourly"
    /\ \E e \in Errors : SoftFail(t, e)

\* fetch_hourly_forecast_datas: the request of iteration i fails: continue
HourlyError(t) ==
    /\ pc[t] = "get" /\ kind[t] = "hourly"
    /\ \E e \in Errors : e \in Errors /\ UNCHANGED logged
    /\ HourlyNext(t, combined_data[t], Append(resp[t], Failed))

\* fetch_hourly_forecast_datas: the response of iteration i arrives
HourlyResponse(t) ==
    /\ pc[t] = "get" /\ kind[t] = "hourly"
    /\ UNCHANGED logged
    /\ \E v \in HourlyVariants :
          LET day_data == HourlyBodyOf(reqs[t][Len(reqs[t])].day, v)
          IN  IF day_data.shape = "object"
              THEN HourlyNext(t, Merge(combined_data[t], day_data.items),
                              Append(resp[t], Got(v)))
              ELSE /\ resp' = [resp EXCEPT ![t] = Append(@, Got(v))]
                   /\ Finish(t, "raised", EmptyDict)
                   /\ UNCHANGED <<now, ticks, calls, kind, i, combined_data, reqs,
                                  began, last_fetch, cached, fetched, piv, weather, getall, config, astro>>

\* ------------------------------------------------------------------ system
Next ==
    \/ Tick
    \/ \E t \in Tasks : DailyCall(t)
    \/ \E t \in Tasks : DailyError(t)
    \/ \E t \in Tasks : DailyResponse(t)
    \/ \E t \in Tasks : CurrentCall(t)
    \/ \E t \in Tasks : CurrentError(t)
    \/ \E t \in Tasks : CurrentResponse(t)
    \/ \E t \in HourlyTasks : HourlyCall(t)
    \/ \E t \in HourlyTasks : HourlyError(t)
    \/ \E t \in HourlyTasks : HourlyResponse(t)

Spec == Init /\ [][Next]_vars

\* ------------------------------------------------- the reshape passes alone
\* The three reshape passes applied to upstream bodies drawn from bounded
\* families, at a time before or after midnight in Paris.

\* Records per metric series in the bodies drawn.
MaxEntries == 2

SeqsUpTo(S, n) == UNION {[1..m -> S] : m \in 0..n}

\* the instants the reshape may run at: 2025-10-25 23:30:31 and 2025-10-26
\* 00:00:00 in Paris
PivotTimes == {StartTime, StartTime + DEFAULT_CACHE_TIMEOUT}

\* records with no "date" and with no "value"
NoDateEntry == [value |-> 7]
NoValueEntry == [date |-> Stamp(Day, "Z")]

\* Daily records: 2025-10-24T00:00Z, 2025-10-25T00:00Z, 2025-10-25T22:00Z (the
\* 26th in Paris) and 2025-10-27T00:00Z.
DailyStamps == {0, Day, Day + 22 * Hour, 3 * Day}
DailyEntrySet ==
    {[date |-> Stamp(t, "Z"), value |-> v] : t \in DailyStamps, v \in {1, 2}}
      \cup {NoDateEntry, NoValueEntry}

\* forecasts-15d gives one record per metric and day: no two records of a
\* series fall on the same local date.
DailySeries(entries) ==
    \A a, b \in 1..Len(entries) :
       (a # b /\ HasFields(entries[a]) /\ HasFields(entries[b]))
       => LocalDate(FromIso(entries[a].date)) # LocalDate(FromIso(entries[b].date))

\* Hourly records: 2025-10-26 at 00:00Z, 00:30Z, 01:00Z and 02:00Z, that is
\* 02:00, 02:30, 02:00 (after the change to winter time) and 03:00 in Paris.
HourlyStamps == {2 * Day, 2 * Day + 30 * 60, 2 * Day + Hour, 2 * Day + 2 * Hour}
HourlyEntrySet ==
    {[date |-> Stamp(t, sfx), value |-> 1] : t \in HourlyStamps, sfx \in {"Z", "+00:00"}}
      \cup {[date |-> Stamp(2 * Day, "Z"), value |-> 2], NoDateEntry, NoValueEntry}

\* Current records
CurrentEntrySet ==
    {[date |-> Stamp(t, "Z"), value |-> 1] : t \in {Day + 21 * Hour, 2 * Day + Hour}}
      \cup {NoDateEntry, NoValueEntry}

Pivoted(mode, body, at, out) ==
    piv' = [mode |-> mode, body |-> body, at |-> at, ok |-> out.ok, v |-> out.v]

PivotFrame ==
    UNCHANGED <<now, ticks, calls, last_fetch, cached, pc, kind, i, combined_data,
                reqs, resp, began, logged, ret, fetched, weather, getall, config, astro>>

\* reorganiser_par_date on a body of two series and the sentinel
PivotDaily ==
    /\ piv.mode = "none"
    /\ \E e1 \in SeqsUpTo(DailyEntrySet, MaxEntries), e2 \in SeqsUpTo(DailyEntrySet, 1),
          at \in PivotTimes :
          /\ DailySeries(e1)
          /\ LET body == Object(<< <<"nbMetrics", 2>>, <<"maxAirTemperature", e1>>,
                                   <<"weatherCode", e2>> >>)
             IN  Pivoted("daily", body, at, reorganiser_par_date(body, at))
    /\ PivotFrame

\* reorganiser_par_heure on the combined dict of two series
PivotHourly ==
    /\ piv.mode = "none"
    /\ \E e1 \in SeqsUpTo(HourlyEntrySet, MaxEntries), e2 \in SeqsUpTo(HourlyEntrySet, 1) :
          LET body == Object(<< <<"airTemperature", e1>>, <<"weatherCode", e2>> >>)
          IN  Pivoted("hourly", body, StartTime, reorganiser_par_heure(body.items))
    /\ PivotFrame

\* reorganiser on a body of up to two metrics and the sentinel
PivotCurrent ==
    /\ piv.mode = "none"
    /\ \E ms \in SeqsUpTo({"airTemperature", "weatherCode", "windSpeedAt2m"}, 2),
          e1 \in CurrentEntrySet, e2 \in CurrentEntrySet :
          /\ (Len(ms) = 2 => ms[1] # ms[2])
          /\ LET es == <<e1, e2>>
                 body == Object(<< <<"nbMetrics", Len(ms)>> >>
                                  \o [n \in 1..Len(ms) |-> <<ms[n], es[n]>>])
             IN  Pivoted("current", body, StartTime, reorganiser(body))
    /\ PivotFrame

\* a body that is valid JSON but no object
PivotArray ==
    /\ piv.mode = "none"
    /\ \E mode \in {"daily", "current"} :
          Pivoted(mode, ArrayBody, StartTime,
                  IF mode = "daily" THEN reorganiser_par_date(ArrayBody, StartTime)
                  ELSE reorganiser(ArrayBody))
    /\ PivotFrame

PivotNext == PivotDaily \/ PivotHourly \/ PivotCurrent \/ PivotArray

PivotSpec == Init /\ [][PivotNext]_vars

\* ------------------------------------------------------ the weather entity
\* weather.py: the properties of PleinchampWeather that map a weather code,
\* read on payloads drawn from bounded families.

\* Largest weather code drawn.
MaxCode == 120

\* dict.get(key): a value, or None
Some(v) == [some |-> TRUE, v |-> v]
Nothing == [some |-> FALSE]
Get(d, f) == IF f \in DOMAIN d THEN Some(d[f]) ELSE Nothing

\* mutant: the night code of MainlyCloudy has the label of Overcast
ConditionMapNight103Cloudy ==
    (1 :> "sunny") @@ (101 :> "clear-night")
      @@ (2 :> "partlycloudy") @@ (102 :> "partlycloudy")
      @@ (3 :> "partlycloudy") @@ (103 :> "cloudy")
      @@ (4 :> "cloudy") @@ (104 :> "cloudy")
      @@ (5 :> "rainy") @@ (105 :> "rainy")
      @@ (6 :> "snowy-rainy") @@ (106 :> "snowy-rainy")
      @@ (7 :> "snowy") @@ (107 :> "snowy")
      @@ (8 :> "rainy") @@ (108 :> "rainy")
      @@ (9 :> "snowy") @@ (109 :> "snowy")
      @@ (10 :> "snowy-rainy") @@ (110 :> "snowy-rainy")
      @@ (11 :> "fog") @@ (111 :> "fog")
      @@ (12 :> "fog") @@ (112 :> "fog")
      @@ (13 :> "rainy") @@ (113 :> "rainy")
      @@ (14 :> "lightning") @@ (114 :> "lightning")
      @@ (15 :> "rainy") @@ (115 :> "rainy")
      @@ (16 :> "exceptional") @@ (116 :> "exceptional")

\* CONDITION_MAP, entry by entry (the ATTR_CONDITION_* labels of the platform)
CONDITION_MAP ==
    (1 :> "sunny") @@ (101 :> "clear-night")
      @@ (2 :> "partlycloudy") @@ (102 :> "partlycloudy")
      @@ (3 :> "partlycloudy") @@ (103 :> "partlycloudy")
      @@ (4 :> "cloudy") @@ (104 :> "cloudy")
      @@ (5 :> "rainy") @@ (105 :> "rainy")
      @@ (6 :> "snowy-rainy") @@ (106 :> "snowy-rainy")
      @@ (7 :> "snowy") @@ (107 :> "snowy")
      @@ (8 :> "rainy") @@ (108 :> "rainy")
      @@ (9 :> "snowy") @@ (109 :> "snowy")
      @@ (10 :> "snowy-rainy") @@ (110 :> "snowy-rainy")
      @@ (11 :> "fog") @@ (111 :> "fog")
      @@ (12 :> "fog") @@ (112 :> "fog")
      @@ (13 :> "rainy") @@ (113 :> "rainy")
      @@ (14 :> "lightning") @@ (114 :> "lightning")
      @@ (15 :> "rainy") @@ (115 :> "rainy")
      @@ (16 :> "exceptional") @@ (116 :> "exceptional")

\* What a condition lookup gives: a label of the table, a raw code, or None.
Label(l) == [is |-> "label", label |-> l]
RawCode(c) == [is |-> "code", code |-> c]
NoCondition == [is |-> "none"]

\* mutant: a mapping gives no bearing
wind_bearing_raw_only(current) ==
    LET wind_dir == Get(current, "windDirection")
    IN  IF wind_dir.some /\ ~wind_dir.v.structured THEN Some(wind_dir.v) ELSE Nothing

\* PleinchampWeather.wind_bearing; `structured` says isinstance(wind_dir, dict)
wind_bearing(current) ==
    LET wind_dir == Get(current, "windDirection")
    IN  IF ~wind_dir.some THEN Nothing
        ELSE IF wind_dir.v.structured THEN Get(wind_dir.v, "degree")
        ELSE wind_dir

\* PleinchampWeather.condition: CONDITION_MAP.get(code, code)
condition(current) ==
    LET code == Get(current, "weatherCode")
    IN  IF ~code.some THEN NoCondition
        ELSE IF code.v \in DOMAIN CONDITION_MAP THEN Label(CONDITION_MAP[code.v])
        ELSE RawCode(code.v)

\* CONDITION_MAP.get(data.get("weatherCode"), None) of a forecast item
ForecastCondition(data) ==
    LET code == Get(data, "weatherCode")
    IN  IF code.some /\ code.v \in DOMAIN CONDITION_MAP
        THEN Label(CONDITION_MAP[code.v])
        ELSE NoCondition

\* data.get("windDirection", {}).get("degree") if isinstance(..., dict) else None
ForecastBearing(data) ==
    LET w == Get(data, "windDirection")
    IN  IF w.some /\ w.v.structured THEN Get(w.v, "degree") ELSE Nothing

\* one item of daily_forecast / hourly_forecast; temp names the temperature
\* metric, stamp the field that holds the bucket's date
Forecast(data, stamp, temp) ==
    [datetime |-> data[stamp],
     condition |-> ForecastCondition(data),
     native_temperature |-> Get(data, temp),
     humidity |-> Get(data, "relativeHumidity"),
     wind_bearing |-> ForecastBearing(data)]

RECURSIVE SetToSeq(_)
SetToSeq(S) ==
    IF S = {} THEN << >>
    ELSE LET x == CHOOSE y \in S : TRUE IN <<x>> \o SetToSeq(S \ {x})

\* sorted(daily_data.items(), key=lambda x: int(x[0]))
DailyOrder(daily_data) == SortSeq(SetToSeq(DOMAIN daily_data), LAMBDA a, b : a < b)

\* datetime.strptime(key, "%Y-%m-%d-%H") of an hourly key, in hours
KeyTime(key) == (CHOOSE d \in 0..9 : IsoDate(d) = key[1]) * 24 + key[2]

\* sorted(hourly_data.items(), key=lambda x: datetime.strptime(x[0], ...))
HourlyOrder(hourly_data) ==
    SortSeq(SetToSeq(DOMAIN hourly_data), LAMBDA a, b : KeyTime(a) < KeyTime(b))

\* PleinchampWeather.daily_forecast
daily_forecast(daily_data) ==
    LET keys == DailyOrder(daily_data)
    IN  [n \in 1..Len(keys) |-> Forecast(daily_data[keys[n]], "date", "maxAirTemperature")]

\* PleinchampWeather.hourly_forecast
hourly_forecast(hourly_data) ==
    LET keys == HourlyOrder(hourly_data)
    IN  [n \in 1..Len(keys) |-> Forecast(hourly_data[keys[n]], "datetime", "airTemperature")]

\* The weather codes a payload may carry: 0..MaxCode, or no weatherCode at all.
Codes == 0..MaxCode
OptCodes == {Some(c) : c \in Codes} \cup {Nothing}

\* a bucket with the weather code c (when there is one) next to its other fields
WithCode(fields, c) == IF c.some THEN fields @@ ("weatherCode" :> c.v) ELSE fields

\* a windDirection value as the API gives it
Wind(deg) == [structured |-> TRUE, degree |-> deg, cardinal |-> "E"]

DailyKeys == {1, 2, 3}

\* 2025-10-25T21:00Z, 2025-10-26T00:00Z and 2025-10-26T09:00Z: the buckets of
\* 23 h on the 25th, 2 h and 10 h on the 26th
HourlyInstants == {Day + 21 * Hour, 2 * Day, 2 * Day + 9 * Hour}
HourlyKeys == {HourKey(Stamp(t, "Z")) : t \in HourlyInstants}
InstantOf(key) == CHOOSE t \in HourlyInstants : HourKey(Stamp(t, "Z")) = key

Reading(op, data, code, out) ==
    weather' = [op |-> op, data |-> data, code |-> code, out |-> out]

WeatherFrame ==
    UNCHANGED <<now, ticks, calls, last_fetch, cached, pc, kind, i, combined_data,
                reqs, resp, began, logged, ret, fetched, piv, getall, config, astro>>

\* condition is read on a current payload
ReadCondition ==
    /\ weather.op = "none"
    /\ \E c \in OptCodes :
          LET current == WithCode(("airTemperature" :> 15), c)
          IN  Reading("condition", current, c, condition(current))
    /\ WeatherFrame

\* daily_forecast is read on a daily payload whose buckets carry the code c
ReadDaily ==
    /\ weather.op = "none"
    /\ \E c \in OptCodes, ks \in SUBSET DailyKeys :
          LET daily_data ==
                 [k \in ks |-> WithCode(("date" :> IsoDate(k)) @@ ("maxAirTemperature" :> 10 + k)
                                          @@ ("windDirection" :> Wind(90 * k)), c)]
          IN  Reading("daily", daily_data, c, daily_forecast(daily_data))
    /\ WeatherFrame

\* hourly_forecast is read on an hourly payload whose buckets carry the code c
ReadHourly ==
    /\ weather.op = "none"
    /\ \E c \in OptCodes, ks \in SUBSET HourlyKeys :
          LET hourly_data ==
                 [k \in ks |-> WithCode(("datetime" :> Stamp(InstantOf(k), "+00:00"))
                                          @@ ("airTemperature" :> k[2]), c)]
          IN  Reading("hourly", hourly_data, c, hourly_forecast(hourly_data))
    /\ WeatherFrame

\* a windDirection value that is no mapping, and a mapping with no degree
RawWind(n) == [structured |-> FALSE, raw |-> n]
WindNoDegree == [structured |-> TRUE, cardinal |-> "E"]
WindValues == {Wind(0), Wind(90), Wind(359), RawWind(0), RawWind(270), WindNoDegree}

\* wind_bearing is read on the current payload reorganiser makes of a summary
\* whose windDirection value is w, or that has no windDirection
ReadBearing ==
    /\ weather.op = "none"
    /\ \E w \in {Some(x) : x \in WindValues} \cup {Nothing} :
          LET air == <<"airTemperature", Rec(Day + 21 * Hour, 15)>>
              body == IF w.some
                      THEN Object(<< <<"nbMetrics", 2>>, air,
                                     <<"windDirection", [date |-> Stamp(Day + 21 * Hour, "Z"),
                                                         value |-> w.v]>> >>)
                      ELSE Object(<< <<"nbMetrics", 1>>, air >>)
              current == reorganiser(body).v
          IN  weather' = [op |-> "bearing", data |-> current, code |-> Nothing,
                          out |-> wind_bearing(current), wind |-> w]
    /\ WeatherFrame

WeatherNext == ReadCondition \/ ReadDaily \/ ReadHourly \/ ReadBearing

WeatherSpec == Init /\ [][WeatherNext]_vars

\* ------------------------------------------------- get_all_forecasts_datas
\* Task 1 runs get_all_forecasts_datas once, alone.  Its code between two
\* awaits is written as several steps here (the accessor's step, then the
\* assignment to result); no other step, and no passing of time, comes
\* between them.

\* result["daily"] = await self.fetch_daily_forecast_datas(): the call
GetAllDaily ==
    /\ getall.pc = "idle" /\ calls = 0
    /\ DailyCall(1)

\* the daily request fails or is answered
GetAllDailyOutcome ==
    /\ getall.pc = "idle" /\ kind[1] = "daily" /\ pc[1] = "get"
    /\ DailyError(1) \/ DailyResponse(1)

\* result["daily"] = <what the accessor returned>, or its exception goes up
GetAllKeepDaily ==
    /\ getall.pc = "idle" /\ calls = 1 /\ kind[1] = "daily" /\ pc[1] = "idle"
    /\ getall' = IF ret[1].status = "raised"
                 THEN [pc |-> "raised", result |-> EmptyDict]
                 ELSE [pc |-> "hourly", result |-> ("daily" :> ret[1].v)]
    /\ UNCHANGED <<now, ticks, calls, last_fetch, cached, pc, kind, i, combined_data,
                   reqs, resp, began, logged, ret, fetched, piv, weather, config, astro>>

\* result["hourly"] = await self.fetch_hourly_forecast_datas(): the call
GetAllHourly ==
    /\ getall.pc = "hourly" /\ kind[1] = "daily"
    /\ HourlyCall(1)

\* a day request of the fan-out fails or is answered
GetAllHourlyOutcome ==
    /\ getall.pc = "hourly" /\ kind[1] = "hourly" /\ pc[1] = "get"
    /\ HourlyError(1) \/ HourlyResponse(1)

\* result["hourly"] = <what the accessor returned>; return dict(result)
GetAllReturn ==
    /\ getall.pc = "hourly" /\ kind[1] = "hourly" /\ pc[1] = "idle"
    /\ getall' = IF ret[1].status = "raised"
                 THEN [pc |-> "raised", result |-> EmptyDict]
                 ELSE [pc |-> "done", result |-> getall.result @@ ("hourly" :> ret[1].v)]
    /\ UNCHANGED <<now, ticks, calls, last_fetch, cached, pc, kind, i, combined_data,
                   reqs, resp, began, logged, ret, fetched, piv, weather, config, astro>>

\* time passes while a request is awaited, and before and after the call
GetAllTick ==
    /\ pc[1] = "get" \/ calls = 0 \/ getall.pc \in {"done", "raised"}
    /\ Tick

GetAllNext ==
    \/ GetAllDaily
    \/ GetAllDailyOutcome
    \/ GetAllKeepDaily
    \/ GetAllHourly
    \/ GetAllHourlyOutcome
    \/ GetAllReturn
    \/ GetAllTick

GetAllSpec == Init /\ [][GetAllNext]_vars

\* ---------------------------------------------------------- the config flow
\* config_flow.py.  A dict (ConfigType) is a function from its keys; latitude
\* and longitude take whole values here.
CONF_LOCATION_NAME == "location_name"
CONF_LATITUDE == "latitude"
CONF_LONGITUDE == "longitude"
CONF_ELEVATION == "elevation"
CONF_FORECAST_INTERVAL == "forecast_interval"
ConfKeys == {CONF_LOCATION_NAME, CONF_LATITUDE, CONF_LONGITUDE, CONF_ELEVATION,
             CONF_FORECAST_INTERVAL}

\* hass.config: the location Home Assistant is set up with
HassConfig == [location_name |-> "Home", latitude |-> 48, longitude |-> 2, elevation |-> 35]

\* d.get(k, default)
DictGet(d, k, default) == IF k \in DOMAIN d THEN d[k] ELSE default

\* d[k] = v
DictSet(d, k, v) == IF k \in DOMAIN d THEN [d EXCEPT ![k] = v] ELSE d @@ (k :> v)

\* one "if k not in data: data[k] = v" of _get_current_values
SetDefault(d, k, v) == IF k \in DOMAIN d THEN d ELSE DictSet(d, k, v)

get_current_values(hass, data) ==
    LET d1 == SetDefault(data, CONF_LOCATION_NAME, hass.location_name)
        d2 == SetDefault(d1, CONF_LATITUDE, hass.latitude)
        d3 == SetDefault(d2, CONF_LONGITUDE, hass.longitude)
        d4 == SetDefault(d3, CONF_ELEVATION, hass.elevation)
    IN SetDefault(d4, CONF_FORECAST_INTERVAL, DEFAULT_FORECAST_INTERVAL)

\* The interval is looked up in data, the other four keys in user_input.
get_config_data(hass, data0, user_input) ==
    LET data == get_current_values(hass, data0)
    IN  (CONF_LOCATION_NAME :> DictGet(user_input, CONF_LOCATION_NAME, data[CONF_LOCATION_NAME]))
     @@ (CONF_LATITUDE :> DictGet(user_input, CONF_LATITUDE, data[CONF_LATITUDE]))
     @@ (CONF_LONGITUDE :> DictGet(user_input, CONF_LONGITUDE, data[CONF_LONGITUDE]))
     @@ (CONF_ELEVATION :> DictGet(user_input, CONF_ELEVATION, data[CONF_ELEVATION]))
     @@ (CONF_FORECAST_INTERVAL :> DictGet(data, CONF_FORECAST_INTERVAL, data[CONF_FORECAST_INTERVAL]))

\* get_location_schema applied to what the form sends: a missing key takes its
\* default (vol.Required(key, default = ...)); the ranges are InSchema.
get_location_schema(hass, sent) ==
       (CONF_LOCATION_NAME :> DictGet(sent, CONF_LOCATION_NAME, hass.location_name))
    @@ (CONF_LATITUDE :> DictGet(sent, CONF_LATITUDE, hass.latitude))
    @@ (CONF_LONGITUDE :> DictGet(sent, CONF_LONGITUDE, hass.longitude))
    @@ (CONF_ELEVATION :> DictGet(sent, CONF_ELEVATION, hass.elevation))
    @@ (CONF_FORECAST_INTERVAL :> DictGet(sent, CONF_FORECAST_INTERVAL, DEFAULT_FORECAST_INTERVAL))

\* vol.Range of each key of the schema
InSchema(u) ==
    /\ u[CONF_LATITUDE] \in -89..89
    /\ u[CONF_LONGITUDE] \in -180..180
    /\ u[CONF_ELEVATION] \in 0..4000
    /\ u[CONF_FORECAST_INTERVAL] \in FORECAST_INTERVAL_MIN..FORECAST_INTERVAL_MAX

\* what a user may type into the form, key by key
FormValues(k) ==
    CASE k = CONF_LOCATION_NAME -> {"Home", "Farm"}
      [] k = CONF_LATITUDE -> {45}
      [] k = CONF_LONGITUDE -> {-1}
      [] k = CONF_ELEVATION -> {0, 120}
      [] k = CONF_FORECAST_INTERVAL ->
            {FORECAST_INTERVAL_MIN, DEFAULT_FORECAST_INTERVAL, 30, FORECAST_INTERVAL_MAX}

\* a key of the form left out, or sent with one of its values
Sent(k) == {EmptyDict} \cup {(k :> v) : v \in FormValues(k)}

\* what the form may send: any of the keys, each with a value it allows
FormInputs ==
    {a @@ b @@ c @@ d @@ e :
        a \in Sent(CONF_LOCATION_NAME), b \in Sent(CONF_LATITUDE),
        c \in Sent(CONF_LONGITUDE), d \in Sent(CONF_ELEVATION),
        e \in Sent(CONF_FORECAST_INTERVAL)}

ConfigFrame ==
    UNCHANGED <<now, ticks, calls, last_fetch, cached, pc, kind, i, combined_data,
                reqs, resp, began, logged, ret, fetched, piv, weather, getall, astro>>

\* async_step_user / async_step_location with user_input = None:
\* _update_location_input does nothing and the form is shown
ShowForm ==
    /\ config.step = "init"
    /\ config' = [config EXCEPT !.step = "form",
                                !.result = [type |-> "form", title |-> "", data |-> EmptyDict]]
    /\ ConfigFrame

\* async_step_location with the validated input of the form:
\* _get_config_data, then the unique id decides between abort and entry
SubmitLocation ==
    /\ config.step = "form"
    /\ \E sent \in FormInputs :
         LET user_input == get_location_schema(HassConfig, sent)
             data == get_config_data(HassConfig, config.data, user_input)
             unique_id == data[CONF_LOCATION_NAME]
         IN  /\ InSchema(user_input)
             /\ config' = [config EXCEPT
                    !.step = "done",
                    !.data = data,
                    !.user_input = user_input,
                    !.result = IF unique_id \in config.entries
                               THEN [type |-> "abort", title |-> "", data |-> EmptyDict]
                               ELSE [type |-> "create_entry", title |-> unique_id, data |-> data],
                    !.entries = config.entries \cup {unique_id}]
    /\ ConfigFrame

\* a new flow is started: PleinchampConfigFlowHandler.__init__
StartFlow ==
    /\ config.step = "done" /\ config.flows < MaxFlows
    /\ config' = [NoFlow EXCEPT !.flows = config.flows + 1, !.entries = config.entries]
    /\ ConfigFrame

ConfigNext == ShowForm \/ SubmitLocation \/ StartFlow

ConfigSpec == Init /\ [][ConfigNext]_vars

\* ------------------------------------------------ _retrieve_data_pleinchamp
\* __init__.py, the module-level functions _retrieve_data_pleinchamp(self) and
\* _async_request_pleinchamp(self).  datetime.now() is the wall clock of the
\* host; no zone transition falls in the times reached here.
NOT_AVAILABLE == -9999

\* what the endpoint does when asked: a JSON object, the JSON text {}, text
\* that is not JSON, no answer in time, or a transport or status error
AstroOutcomes == {"body", "empty", "json", "timeout", "client"}

\* the JSON object of a good answer (its "init" field alone is read here)
AstroBody == ("init" :> "2025102521") @@ ("dataseries" :> << >>)

\* _async_request_pleinchamp(self): the parsed body, or {} from each except clause
async_request_pleinchamp(o) ==
    CASE o = "body" -> AstroBody
      [] o = "empty" -> EmptyDict
      [] o \in {"json", "timeout", "client"} -> EmptyDict

\* the parameters of _async_request_pleinchamp (self), and the arguments the
\* call in _retrieve_data_pleinchamp passes (none)
RequestParams == 1
RequestArgs == 0

\* A Python call binds when every required parameter gets an argument;
\* otherwise the call expression raises TypeError before the body runs.
Binds(args, params) == args = params

\* the list built by "for index in range(0, 20)"
FakeData == [index \in 1..20 |->
                [timepoint |-> (index - 1) * 3, seeing |-> NOT_AVAILABLE,
                 transparency |-> NOT_AVAILABLE, lifted_index |-> NOT_AVAILABLE]]

\* the if / else on json_data_pleinchamp != {}
Kept(json) == IF json # EmptyDict THEN [kind |-> "body", v |-> json]
                                   ELSE [kind |-> "fake", v |-> FakeData]

AstroFrame ==
    UNCHANGED <<calls, last_fetch, cached, pc, kind, i, combined_data,
                reqs, resp, began, logged, ret, fetched, piv, weather, getall, config>>

\* One call of _retrieve_data_pleinchamp, the endpoint being in state o.  The
\* gate and the assignment of the timestamp come first; the call of
\* _async_request_pleinchamp comes next, and only if it binds is a request made
\* and its result kept.
retrieve_data_pleinchamp ==
    /\ astro.calls < MaxRetrieves
    /\ \E o \in AstroOutcomes :
         LET called == [astro EXCEPT !.calls = @ + 1, !.at = now, !.upstream = o]
         IN  astro' =
               IF now - astro.timestamp > DEFAULT_CACHE_TIMEOUT
               THEN LET stamped == [called EXCEPT !.timestamp = now, !.passed = TRUE,
                                                  !.attempts = Append(@, now)]
                    IN  IF Binds(RequestArgs, RequestParams)
                        THEN [stamped EXCEPT !.requests = Append(@, now),
                                             !.data = Kept(async_request_pleinchamp(o)),
                                             !.outcome = "returned"]
                        ELSE [stamped EXCEPT !.outcome = "TypeError"]
               ELSE [called EXCEPT !.passed = FALSE, !.outcome = "cached"]
    /\ UNCHANGED <<now, ticks>>
    /\ AstroFrame

\* time passes between two calls
AstroSteps == {1, DEFAULT_CACHE_TIMEOUT, DEFAULT_CACHE_TIMEOUT + 1}

AstroTick ==
    /\ ticks < MaxWaits
    /\ \E d \in AstroSteps : now' = now + d
    /\ ticks' = ticks + 1
    /\ UNCHANGED astro
    /\ AstroFrame

AstroNext == retrieve_data_pleinchamp \/ AstroTick

AstroSpec == Init /\ [][AstroNext]_vars

\* ================================================================= claims
\* Steps of a call, as the caller sees them.
\* task t starts a call of accessor k (the cache gate is evaluated in this step)
Starts(t, k) == pc[t] = "idle" /\ calls' = calls + 1 /\ began'[t] = now /\ kind'[t] = k
                /\ (pc'[t] = "get" \/ ret'[t].hit)

\* task t's call, which went to the network, ends in this step
Ends(t) == pc[t] = "get" /\ pc'[t] = "idle"

\* the number of GET requests a cache miss of kind k makes
RequestsOf(k) == IF k = "hourly" THEN HourlyDays ELSE 1

\* C1: after a call whose fetch succeeded at time t, every later call of that
\* kind made while now - t < TTL returns the payload that fetch produced and
\* issues no HTTP request, whatever that payload was (an empty one included).
C1_Original ==
    [][\A t \in Tasks, k \in Kinds :
         (Starts(t, k) /\ fetched[k].set /\ now - fetched[k].at < DEFAULT_CACHE_TIMEOUT)
         => /\ pc'[t] = "idle"
            /\ reqs'[t] = << >>
            /\ ret'[t].status = "returned"
            /\ ret'[t].v = fetched[k].v]_vars

\* C2: when a call's fetch fails (for hourly: any of the six requests), the
\* kind's cache entry after the call is what it was before the call and the
\* call returns an empty mapping (so that no failed fetch removes or empties a
\* payload the entry holds).  Stated of the calls that return.
C2_Original ==
    [][\A t \in Tasks, k \in Kinds :
         (Ends(t) /\ kind[t] = k /\ ~AllOk(resp'[t]) /\ ret'[t].status = "returned")
         => /\ cached'[k] = cached[k]
            /\ last_fetch'[k] = last_fetch[k]
            /\ ret'[t].v = EmptyDict]_vars

\* C3: whatever the upstream answers, an accessor returns a mapping and never
\* lets an exception reach its caller.
C3_Original == \A t \in Tasks : ret[t].status # "raised"

\* the payload the reshape of kind k makes, at time t, of the bodies rs that
\* the requests rq of one call got
RECURSIVE Combined(_, _, _)
Combined(rq, rs, n) ==
    IF n = 0 THEN << >>
    ELSE IF rs[n].ok
         THEN Merge(Combined(rq, rs, n - 1), HourlyBodyOf(rq[n].day, rs[n].v).items)
         ELSE Combined(rq, rs, n - 1)

ReshapeOf(k, rq, rs, t) ==
    CASE k = "daily" -> reorganiser_par_date(DailyBodyOf(rs[1].v), t)
      [] k = "current" -> reorganiser(CurrentBodyOf(rs[1].v))
      [] OTHER -> reorganiser_par_heure(Combined(rq, rs, Len(rs)))

\* C4: the first call after startup, and every call made when
\* now - fetchedAt >= TTL (a call at exactly TTL included), goes to the network:
\* one GET for current and daily, six for hourly; when the fetch succeeds, the
\* entry's payload and fetchedAt are both replaced by that fetch's result.
C4_MissFetchesAndReplaces ==
    [][\A t \in Tasks, k \in Kinds :
         /\ (Starts(t, k) /\ (~last_fetch[k].set
                              \/ now - last_fetch[k].at >= DEFAULT_CACHE_TIMEOUT))
            => /\ pc'[t] = "get"
               /\ Len(reqs'[t]) = 1 /\ reqs'[t][1].kind = k
               /\ ~ret'[t].hit
         /\ (Ends(t) /\ kind[t] = k /\ AllOk(resp'[t]) /\ ret'[t].status = "returned")
            => /\ Len(reqs'[t]) = RequestsOf(k)
               /\ Len(resp'[t]) = RequestsOf(k)
               /\ \A j \in 1..Len(reqs'[t]) : reqs'[t][j].kind = k
               /\ ret'[t].v = ReshapeOf(k, reqs'[t], resp'[t], now).v
               /\ cached'[k] = [set |-> TRUE, v |-> ret'[t].v]
               /\ last_fetch'[k] = [set |-> TRUE, at |-> now]]_vars

\* C4 witness: a call that started when the entry was exactly TTL old has gone
\* to the network and replaced the entry.
C4_Witness ==
    \E t \in Tasks :
       /\ ret[t].status = "returned" /\ ~ret[t].hit /\ AllOk(resp[t])
       /\ Len(resp[t]) = RequestsOf(kind[t])
       /\ began[t] = StartTime + DEFAULT_CACHE_TIMEOUT
       /\ fetched[kind[t]].at = began[t]
       /\ last_fetch[kind[t]].at = began[t]
       /\ cached[kind[t]].v = ret[t].v
       /\ calls = 2 /\ \A u \in Tasks : pc[u] = "idle" /\ kind[u] = kind[t]

\* the records of a day body: <<metric, record>> for every non-sentinel metric
DayRecords(body) ==
    UNION {{<<body.items[m][1], body.items[m][2][n]>> : n \in 1..Len(body.items[m][2])} :
             m \in {x \in 1..Len(body.items) : body.items[x][1] # "nbMetrics"}}

\* C5: when any subset of the six day requests of the hourly fan-out fails, the
\* other day requests are still issued and the payload returned holds a bucket
\* entry for every record of every day whose request succeeded.
C5_PartialDaysKept ==
    \A t \in Tasks :
       (kind[t] = "hourly" /\ ret[t].status = "returned" /\ ~ret[t].hit)
       => /\ Len(reqs[t]) = HourlyDays /\ Len(resp[t]) = HourlyDays
          /\ \A j \in 1..HourlyDays :
                resp[t][j].ok =>
                   \A mr \in DayRecords(HourlyBodyOf(reqs[t][j].day, resp[t][j].v)) :
                      /\ HourKey(mr[2].date) \in DOMAIN ret[t].v
                      /\ mr[1] \in DOMAIN ret[t].v[HourKey(mr[2].date)]

\* C5 witness: the third day request failed, the five others succeeded, and the
\* payload returned holds the first hour of each of those five days.
C5_Witness ==
    \E t \in Tasks :
       /\ kind[t] = "hourly" /\ ret[t].status = "returned" /\ ~ret[t].hit
       /\ Len(resp[t]) = HourlyDays
       /\ \A j \in 1..HourlyDays : resp[t][j].ok <=> j # 3
       /\ \A j \in (1..HourlyDays) \ {3} :
             HourKey(Stamp(reqs[t][j].day * Day, "Z")) \in DOMAIN ret[t].v
       /\ HourKey(Stamp(reqs[t][3].day * Day, "Z")) \notin DOMAIN ret[t].v

\* C6 as stated: a daily or current fetch that fails on a malformed JSON body
\* returns an empty result only if no fetch of the kind has succeeded before,
\* and the stale cached payload when there is one.
C6_Original ==
    [][\A t \in Tasks :
         (Ends(t) /\ kind[t] \in {"daily", "current"} /\ logged'[t] = "bad_json")
         => ret'[t].v = IF cached[kind[t]].set THEN cached[kind[t]].v ELSE EmptyDict]_vars

\* C6 amended: a daily or current fetch that fails on a malformed JSON body
\* returns an empty mapping whether or not an earlier fetch of the kind
\* succeeded; the stale entry stays in the cache and is not returned.
C6_EmptyEvenWithStale ==
    [][\A t \in Tasks :
         (Ends(t) /\ kind[t] \in {"daily", "current"} /\ logged'[t] = "bad_json")
         => /\ ret'[t].status = "returned" /\ ret'[t].v = EmptyDict
            /\ cached' = cached /\ last_fetch' = last_fetch]_vars

\* C6 witness: a call failed on malformed JSON and returned an empty mapping
\* while the entry of its kind held a stale payload.
C6_Witness ==
    \E t \in Tasks :
       /\ logged[t] = "bad_json" /\ pc[t] = "idle"
       /\ ret[t].status = "returned" /\ ret[t].v = EmptyDict
       /\ Truthy(cached[kind[t]]) /\ last_fetch[kind[t]].set
       /\ began[t] - last_fetch[kind[t]].at >= DEFAULT_CACHE_TIMEOUT

\* the well-formed records of the series of a body: <<metric, record>>
GoodRecords(body) == {mr \in DayRecords(body) : HasFields(mr[2])}

\* the records of metric m that fall in hourly bucket key
InHour(body, m, key) ==
    {mr \in GoodRecords(body) : mr[1] = m /\ HourKey(mr[2].date) = key}

\* C7: in the daily, hourly and current reshape passes a record that lacks
\* `date` or `value` leaves at most its own metric partial or absent: the pass
\* completes and every well-formed record of the input still appears.
C7_Original ==
    (piv.mode # "none" /\ piv.body.shape = "object")
    => /\ piv.ok
       /\ piv.mode = "daily" =>
             \A mr \in GoodRecords(piv.body) :
                IndexJour(mr[2].date, LocalDate(piv.at)) > 0
                => /\ IndexJour(mr[2].date, LocalDate(piv.at)) \in DOMAIN piv.v
                   /\ mr[1] \in DOMAIN piv.v[IndexJour(mr[2].date, LocalDate(piv.at))]
       /\ piv.mode = "hourly" =>
             \A mr \in GoodRecords(piv.body) :
                /\ HourKey(mr[2].date) \in DOMAIN piv.v
                /\ mr[1] \in DOMAIN piv.v[HourKey(mr[2].date)]
       /\ piv.mode = "current" =>
             \A n \in 1..Len(piv.body.items) :
                (piv.body.items[n][1] # "nbMetrics" /\ HasFields(piv.body.items[n][2]))
                => piv.body.items[n][1] \in DOMAIN piv.v

C9_DailyKeys ==
    (piv.mode = "daily" /\ piv.ok)
    => \A k \in DOMAIN piv.v :
          /\ k \in Nat /\ k > 0
          /\ \A f \in DOMAIN piv.v[k] \ {"date"} :
                \E mr \in DayRecords(piv.body) :
                   /\ mr[1] = f /\ mr[2].value = piv.v[k][f]
                   /\ LocalDate(FromIso(mr[2].date)) = LocalDate(piv.at) + (k - 1)
          /\ DOMAIN piv.v[k] # {"date"}

\* C9 witness: with entries of yesterday, today and the day after tomorrow, the
\* keys are 1 and 3.
C9_Witness ==
    /\ piv.mode = "daily" /\ piv.ok /\ piv.at = StartTime
    /\ piv.body.items[2][2] = <<Rec(0, 1), Rec(Day, 1)>>
    /\ piv.body.items[3][2] = <<Rec(3 * Day, 2)>>
    /\ DOMAIN piv.v = {1, 3}

\* C10: hourly pivot: entries of two different metrics in the same Paris date
\* and hour are in one bucket, under the key of that date and hour, and the
\* bucket holds a value of each metric (neither overwrites the other).
C10_HourlyMerge ==
    (piv.mode = "hourly" /\ piv.ok)
    => \A a, b \in DayRecords(piv.body) :
          (a[1] # b[1] /\ HourKey(a[2].date) = HourKey(b[2].date))
          => LET key == <<IsoDate(LocalDate(a[2].date.t)), LocalHour(a[2].date.t)>>
             IN  /\ key \in DOMAIN piv.v
                 /\ \A m \in {a[1], b[1]} :
                       /\ m \in DOMAIN piv.v[key]
                       /\ \E mr \in InHour(piv.body, m, key) : piv.v[key][m] = mr[2].value

\* C10 witness: airTemperature = 2 at 2025-10-26T00:00:00Z and weatherCode = 1 at
\* 2025-10-26T00:00:00+00:00 are both in the bucket of 2025-10-26, 2 o'clock.
C10_Witness ==
    /\ piv.mode = "hourly" /\ piv.ok
    /\ piv.body.items[1][2] = <<[date |-> Stamp(2 * Day, "Z"), value |-> 2]>>
    /\ piv.body.items[2][2] = <<[date |-> Stamp(2 * Day, "+00:00"), value |-> 1]>>
    /\ DOMAIN piv.v = {<<"2025-10-26", 2>>}
    /\ piv.v[<<"2025-10-26", 2>>]["airTemperature"] = 2
    /\ piv.v[<<"2025-10-26", 2>>]["weatherCode"] = 1

\* C11: the payload an accessor returns never holds the sentinel `nbMetrics`:
\* the keys of a current payload are metrics other than the sentinel; a daily
\* payload is keyed by day numbers and an hourly one by the date and hour of a
\* record of a non-sentinel metric of a day body, and no bucket of either has
\* the sentinel among its fields.
C11_NoSentinel ==
    \A t \in Tasks :
       ret[t].status = "returned"
       => CASE kind[t] = "current" -> "nbMetrics" \notin DOMAIN ret[t].v
            [] kind[t] = "daily" ->
                 \A k \in DOMAIN ret[t].v :
                    k \in Nat /\ "nbMetrics" \notin DOMAIN ret[t].v[k]
            [] OTHER ->
                 \A key \in DOMAIN ret[t].v :
                    /\ "nbMetrics" \notin DOMAIN ret[t].v[key]
                    /\ ret[t].hit
                       \/ \E j \in 1..Len(resp[t]) :
                             /\ resp[t][j].ok
                             /\ \E mr \in DayRecords(HourlyBodyOf(reqs[t][j].day, resp[t][j].v)) :
                                   key = HourKey(mr[2].date)

\* C11 witness: an hourly call and a current call, answered with bodies that
\* hold the sentinel, have both returned a payload that is not empty.
C11_Witness ==
    \E t, u \in Tasks :
       /\ kind[t] = "hourly" /\ kind[u] = "current"
       /\ ret[t].status = "returned" /\ ret[u].status = "returned"
       /\ ~ret[t].hit /\ ~ret[u].hit
       /\ AllOk(resp[t]) /\ Len(resp[t]) = HourlyDays
       /\ resp[u] = <<Got(1)>>
       /\ CurrentBodyOf(1).items[1][1] = "nbMetrics"
       /\ DOMAIN ret[u].v = {"datetime", "airTemperature", "windDirection", "weatherCode"}
       /\ Cardinality(DOMAIN ret[t].v) = 2 * HourlyDays

\* C12: under any interleaving of calls of different kinds, a step of a call
\* of one kind changes neither payload nor fetchedAt of another kind's entry:
\* an entry changes only in the step that ends a call of its own kind.
C12_OtherKindsUntouched ==
    [][\A k \in Kinds :
         (cached'[k] # cached[k] \/ last_fetch'[k] # last_fetch[k])
         => \E t \in Tasks :
               /\ Ends(t) /\ kind[t] = k
               /\ \A u \in Tasks \ {t} : pc'[u] = pc[u] /\ ret'[u] = ret[u]
               /\ \A x \in Kinds \ {k} :
                     cached'[x] = cached[x] /\ last_fetch'[x] = last_fetch[x]]_vars

\* C12 witness: a daily call started after the hourly fan-out did and stored
\* its result while the fan-out was still awaiting a day response; the hourly
\* entry is still unset.
C12_Witness ==
    \E t, u \in Tasks :
       /\ kind[t] = "hourly" /\ pc[t] = "get" /\ i[t] >= 1
       /\ kind[u] = "daily" /\ pc[u] = "idle" /\ began[u] > began[t]
       /\ ret[u].status = "returned" /\ ~ret[u].hit
       /\ cached["daily"] = [set |-> TRUE, v |-> ret[u].v]
       /\ last_fetch["daily"] = [set |-> TRUE, at |-> now]
       /\ cached["hourly"] = NoData /\ last_fetch["hourly"] = None

\* C13: in every state another coroutine can observe, each kind's entry is a
\* consistent pair: payload and fetchedAt are both unset or both set, and
\* whenever either changes both are written in one step by one fetch (the
\* payload that fetch returns and the time of that step).
C13_ConsistentPair ==
    /\ [](\A k \in Kinds : cached[k].set <=> last_fetch[k].set)
    /\ [][\A k \in Kinds :
            (cached'[k] # cached[k] \/ last_fetch'[k] # last_fetch[k])
            => \E t \in Tasks :
                  /\ Ends(t) /\ kind[t] = k /\ ret'[t].status = "returned"
                  /\ cached'[k] = [set |-> TRUE, v |-> ret'[t].v]
                  /\ last_fetch'[k] = [set |-> TRUE, at |-> now]]_vars

\* C13 witness: a second daily fetch, one TTL after the first, has replaced a
\* payload by a different one; the entry holds the second payload and time.
C13_Witness ==
    \E t, u \in Tasks :
       /\ kind[t] = "daily" /\ kind[u] = "daily" /\ pc[t] = "idle" /\ pc[u] = "idle"
       /\ ret[t].status = "returned" /\ ret[u].status = "returned"
       /\ ~ret[t].hit /\ ~ret[u].hit
       /\ Truthy([set |-> TRUE, v |-> ret[t].v]) /\ ret[u].v # ret[t].v
       /\ began[u] = began[t] + DEFAULT_CACHE_TIMEOUT
       /\ cached["daily"] = [set |-> TRUE, v |-> ret[u].v]
       /\ last_fetch["daily"] = [set |-> TRUE, at |-> began[u]]

\* the call task u finished last was a poll of kind k that went to the network
\* and had at least one failed request, and no other task has polled k since
FailedPoll(u, k) ==
    /\ kind[u] = k /\ pc[u] = "idle" /\ ret[u].status # "none" /\ ~ret[u].hit
    /\ ~AllOk(resp[u])
    /\ \A w \in Tasks \ {u} : kind[w] # k \/ (pc[w] = "idle" /\ ret[w].status = "none")

\* C14: after a poll of a kind in which at least one HTTP request failed, the
\* next poll of that kind issues HTTP requests again, whether or not the TTL
\* has run out since.
C14_Original ==
    [][\A t \in Tasks, k \in Kinds :
         (Starts(t, k) /\ \E u \in Tasks : FailedPoll(u, k))
         => pc'[t] = "get" /\ Len(reqs'[t]) >= 1 /\ ~ret'[t].hit]_vars

\* C15: CONDITION_MAP maps code 1 to the sunny label and 101 to the clear-night
\* label, and for every day code c in 2..16 the night code c + 100 is in the
\* table with the label of c; read through the entity's condition.
C15_ConditionMap ==
    (weather.op = "condition" /\ weather.code.some)
    => LET c == weather.code.v
       IN  /\ c = 1 => weather.out = Label("sunny")
           /\ c = 101 => weather.out = Label("clear-night")
           /\ c \in 2..16 => /\ weather.out.is = "label"
                             /\ c + 100 \in DOMAIN CONDITION_MAP
                             /\ CONDITION_MAP[c + 100] = weather.out.label
           /\ c \in 102..116 => /\ c - 100 \in DOMAIN CONDITION_MAP
                                /\ weather.out = Label(CONDITION_MAP[c - 100])

\* C15 witness: the condition read for code 3 is partlycloudy, the label the
\* table also has for 103.
C15_Witness ==
    /\ weather.op = "condition" /\ weather.code = Some(3)
    /\ weather.out = Label("partlycloudy")
    /\ CONDITION_MAP[103] = "partlycloudy"

\* C16: for a weather code that is no key of CONDITION_MAP the condition
\* reported is the raw code, on every path that maps a code: the current
\* condition and each item of the daily and of the hourly forecast.
C16_Original ==
    (weather.op # "none" /\ weather.code.some /\ weather.code.v \notin DOMAIN CONDITION_MAP)
    => IF weather.op = "condition"
       THEN weather.out = RawCode(weather.code.v)
       ELSE \A n \in 1..Len(weather.out) :
               weather.out[n].condition = RawCode(weather.code.v)

\* C17: a successful re-fetch replaces the entry wholesale: the payload after
\* it is the reshape of the new response(s) alone; a bucket, or a metric of a
\* bucket, that only the previous payload had is not in the new one.
C17_ReplacedWholesale ==
    [][\A t \in Tasks, k \in Kinds :
         (Ends(t) /\ kind[t] = k /\ cached[k].set
            /\ AllOk(resp'[t]) /\ ret'[t].status = "returned")
         => LET new == ReshapeOf(k, reqs'[t], resp'[t], now).v
                old == cached[k].v
            IN  /\ cached'[k] = [set |-> TRUE, v |-> new]
                /\ \A key \in DOMAIN old \ DOMAIN new : key \notin DOMAIN cached'[k].v
                /\ k # "current" =>
                      \A key \in DOMAIN old \cap DOMAIN new :
                         \A f \in DOMAIN old[key] \ DOMAIN new[key] :
                            f \notin DOMAIN cached'[k].v[key]]_vars

\* C17 witness: a daily fetch at 23:30:31 gave buckets 1 and 2; the re-fetch
\* one TTL later (past midnight in Paris) gave bucket 1 only, and the entry holds
\* bucket 1 only.
C17_Witness ==
    \E t, u \in Tasks :
       /\ kind[t] = "daily" /\ kind[u] = "daily" /\ pc[t] = "idle" /\ pc[u] = "idle"
       /\ ret[t].status = "returned" /\ ret[u].status = "returned"
       /\ ~ret[t].hit /\ ~ret[u].hit
       /\ began[t] = StartTime /\ began[u] = StartTime + DEFAULT_CACHE_TIMEOUT
       /\ last_fetch["daily"].at = began[u]
       /\ DOMAIN ret[t].v = {1, 2} /\ DOMAIN ret[u].v = {1}
       /\ DOMAIN cached["daily"].v = {1}

\* the records of the series of items, in the order the hourly pass visits them
RECURSIVE Visited(_)
Visited(items) ==
    IF items = << >> THEN << >> ELSE Head(items)[2] \o Visited(Tail(items))

\* the first record visited that falls in bucket key
FirstIn(records, key) ==
    records[CHOOSE n \in 1..Len(records) :
               /\ HourKey(records[n].date) = key
               /\ \A m \in 1..(n - 1) : HourKey(records[m].date) # key]

\* C18: in every bucket of the hourly output, `datetime` is the timestamp
\* string (Z rewritten to +00:00) of the first entry processed for that local
\* date and hour; later entries of the bucket do not change it.
C18_Original ==
    (piv.mode = "hourly" /\ piv.ok)
    => \A key \in DOMAIN piv.v :
          piv.v[key]["datetime"] = ReplaceZ(FirstIn(Visited(piv.body.items), key).date)

\* C19: an hourly cache miss issues exactly six requests, one per date today,
\* today + 1, ..., today + 5 (today in Europe/Paris when the call is made), in
\* ascending order, each only after the previous one has completed; a hit
\* issues none.  Stated of the requests issued so far and, for the count, of
\* the calls that return.
C19_Original ==
    \A t \in Tasks :
       kind[t] = "hourly"
       => /\ \A j \in 1..Len(reqs[t]) :
                /\ reqs[t][j].kind = "hourly"
                /\ reqs[t][j].day = LocalDate(began[t]) + (j - 1)
                /\ reqs[t][j].date = IsoDate(LocalDate(began[t]) + (j - 1))
          /\ pc[t] = "get" => Len(reqs[t]) = Len(resp[t]) + 1
          /\ (ret[t].status = "returned" /\ ~ret[t].hit) => Len(reqs[t]) = HourlyDays
          /\ ret[t].hit => reqs[t] = << >>

\* C20: in every daily payload handed to a caller, a payload served from the
\* cache included, the bucket under key k is dated today + k - 1, today being
\* the date in Europe/Paris when the payload is handed over.
C20_Original ==
    [][\A t \in Tasks :
         ((Starts(t, "daily") /\ ret'[t].hit)
            \/ (Ends(t) /\ kind[t] = "daily" /\ ret'[t].status = "returned"))
         => \A k \in DOMAIN ret'[t].v :
               ret'[t].v[k]["date"] = IsoDate(LocalDate(now) + (k - 1))]_vars

\* C21: current reshape: the output maps every non-sentinel metric to its
\* record's value; it has a top-level `datetime` exactly when the input holds
\* airTemperature, and then it is that record's timestamp in Europe/Paris, in
\* ISO form; no other metric's timestamp (present or not) has any effect.
C21_CurrentPivot ==
    (piv.mode = "current" /\ piv.ok /\ piv.body.shape = "object")
    => LET items == piv.body.items
           ms == {n \in 1..Len(items) : items[n][1] # "nbMetrics"}
           air == {n \in ms : items[n][1] = "airTemperature"}
       IN  /\ DOMAIN piv.v = {items[n][1] : n \in ms}
                                \cup (IF air # {} THEN {"datetime"} ELSE {})
           /\ \A n \in ms : piv.v[items[n][1]] = items[n][2].value
           /\ \A n \in air :
                 LET t == items[n][2].date.t
                 IN  piv.v["datetime"] =
                        [local |-> t + (IF t < DstEnd THEN 2 * Hour ELSE Hour),
                         offset |-> IF t < DstEnd THEN 2 * Hour ELSE Hour]

\* C21 witness: airTemperature stamped 2025-10-25T21:00:00Z and weatherCode
\* stamped 2025-10-26T01:00:00Z give datetime 2025-10-25T23:00:00+02:00.
C21_Witness ==
    /\ piv.mode = "current" /\ piv.ok
    /\ piv.body.items = << <<"nbMetrics", 2>>,
                           <<"airTemperature", Rec(Day + 21 * Hour, 1)>>,
                           <<"weatherCode", Rec(2 * Day + Hour, 1)>> >>
    /\ DOMAIN piv.v = {"datetime", "airTemperature", "weatherCode"}
    /\ piv.v["datetime"] = [local |-> Day + 23 * Hour, offset |-> 2 * Hour]

\* C22: the current reshape keeps a structured windDirection value as it is
\* (nested), and wind_bearing returns its `degree` when the value is a
\* mapping and the value itself otherwise.
C22_WindBearing ==
    (weather.op = "bearing" /\ weather.wind.some)
    => LET w == weather.wind.v
       IN  /\ "windDirection" \in DOMAIN weather.data
           /\ weather.data["windDirection"] = w
           /\ (w.structured /\ "degree" \in DOMAIN w) => weather.out = Some(w.degree)
           /\ ~w.structured => weather.out = Some(w)

\* C22 witness: windDirection {degree: 90, cardinal: E} is in the current
\* payload as it came and the bearing read is 90.
C22_Witness ==
    /\ weather.op = "bearing" /\ weather.wind = Some(Wind(90))
    /\ weather.data["windDirection"] = [structured |-> TRUE, degree |-> 90, cardinal |-> "E"]
    /\ weather.out = Some(90)

\* C23: two overlapping calls of one kind on a cold or expired entry: the
\* second passes the gate and issues its own request while the first is in
\* flight; when a call that started before the other completes after it, both
\* having fetched successfully, the entry is the pair that call writes.
C23_NoSingleFlight ==
    [][\A t \in Tasks, k \in Kinds :
         /\ (Starts(t, k) /\ ~CacheHit(k)
               /\ \E u \in Tasks \ {t} : pc[u] = "get" /\ kind[u] = k)
            => /\ pc'[t] = "get" /\ ~ret'[t].hit
               /\ reqs'[t] = <<Request(k, IF k = "hourly" THEN LocalDate(now) ELSE NoDay)>>
               /\ \A u \in Tasks \ {t} : reqs'[u] = reqs[u] /\ pc'[u] = pc[u]
         /\ (Ends(t) /\ kind[t] = k /\ ret'[t].status = "returned" /\ AllOk(resp'[t])
               /\ \E u \in Tasks \ {t} :
                     /\ kind[u] = k /\ pc[u] = "idle" /\ began[u] > began[t]
                     /\ ret[u].status = "returned" /\ ~ret[u].hit)
            => /\ cached'[k] = [set |-> TRUE, v |-> ret'[t].v]
               /\ last_fetch'[k] = [set |-> TRUE, at |-> now]]_vars

\* C23 witness: two daily calls overlapped on a cold cache, each with its own
\* request; the one that started first completed last, and the entry holds its
\* payload, not the other's.
C23_Witness ==
    \E t, u \in Tasks :
       /\ kind[t] = "daily" /\ kind[u] = "daily" /\ pc[t] = "idle" /\ pc[u] = "idle"
       /\ began[t] < began[u]
       /\ ret[t].status = "returned" /\ ret[u].status = "returned"
       /\ ~ret[t].hit /\ ~ret[u].hit
       /\ Len(reqs[t]) = 1 /\ Len(reqs[u]) = 1
       /\ resp[t] = <<Got(1)>> /\ resp[u] = <<Got(2)>>
       /\ ret[t].v # ret[u].v
       /\ cached["daily"] = [set |-> TRUE, v |-> ret[t].v]
       /\ last_fetch["daily"] = [set |-> TRUE, at |-> now]

\* C24: for every kind, under any sequence or interleaving of calls, fetchedAt
\* never decreases and, once set, is never unset again.
C24_FetchedAtMonotonic ==
    [][\A k \in Kinds :
         last_fetch[k].set
         => last_fetch'[k].set /\ last_fetch'[k].at >= last_fetch[k].at]_vars

\* C24 witness: a current fetch succeeded at the start; a second one, one TTL
\* later, timed out; fetchedAt is still the time of the first.
C24_Witness ==
    \E t, u \in Tasks :
       /\ kind[t] = "current" /\ kind[u] = "current" /\ pc[t] = "idle" /\ pc[u] = "idle"
       /\ ret[t].status = "returned" /\ ~ret[t].hit /\ AllOk(resp[t])
       /\ began[t] = StartTime /\ began[u] = StartTime + DEFAULT_CACHE_TIMEOUT
       /\ logged[u] = "timeout" /\ ret[u].status = "returned"
       /\ last_fetch["current"] = [set |-> TRUE, at |-> StartTime]
       /\ now > StartTime

\* C25: if polls of a kind keep occurring and from some point on every request
\* succeeds with a record that is not past, a poll eventually returns a
\* non-empty payload reshaped from a later response; and every cache-miss call
\* terminates, the hourly one after exactly six request outcomes.  The part on
\* how a cache-miss call ends: a call that has ended after a miss has had one
\* request outcome, and six when it is the hourly one.
C25_Original ==
    \A t \in Tasks :
       (pc[t] = "idle" /\ ret[t].status # "none" /\ ~ret[t].hit)
       => /\ Len(resp[t]) = RequestsOf(kind[t])
          /\ Len(reqs[t]) = RequestsOf(kind[t])

\* C26: get_all_forecasts_datas always returns a mapping with exactly the keys
\* `daily` and `hourly`; the daily accessor has run to completion before the
\* hourly one starts, and a daily fetch that failed (daily is the empty
\* mapping) does not keep the hourly fetch from running.
C26_Original ==
    /\ getall.pc # "raised"
    /\ getall.pc = "done" => DOMAIN getall.result = {"daily", "hourly"}
    /\ kind[1] = "hourly" => /\ "daily" \in DOMAIN getall.result
                             /\ calls = 2
    /\ (getall.pc = "done" /\ getall.result["daily"] = EmptyDict)
          => Len(reqs[1]) = HourlyDays

\* C27: hourly pivot: two entries of one metric whose timestamps are in two
\* different UTC hours are in two different buckets, also across the changes
\* between summer and winter time in Europe/Paris.
C27_Original ==
    (piv.mode = "hourly" /\ piv.ok)
    => \A a, b \in DayRecords(piv.body) :
          (a[1] = b[1] /\ a[2].date.t \div Hour # b[2].date.t \div Hour)
          => HourKey(a[2].date) # HourKey(b[2].date)


\* C28: in the config flow, submitting the location form with a forecast
\* interval v within 1..240 creates an entry whose stored forecast_interval is
\* v, as the submitted name, latitude, longitude and elevation are stored as
\* submitted.
C28_Original ==
    config.result.type = "create_entry" =>
        \A k \in ConfKeys : config.result.data[k] = config.user_input[k]

\* C29: _retrieve_data_pleinchamp advances its timestamp before the request;
\* when the endpoint then gives nothing usable, the stored data is replaced by
\* the 20 placeholder entries (timepoint 0, 3, ..., 57, the three indices
\* -9999); and two attempts are more than DEFAULT_CACHE_TIMEOUT seconds apart.
C29_Original ==
    /\ astro.passed => astro.timestamp = astro.at
    /\ astro.passed /\ astro.upstream \in AstroOutcomes \ {"body"} =>
          /\ astro.data.kind = "fake"
          /\ Len(astro.data.v) = 20
          /\ \A n \in 1..20 :
                astro.data.v[n] = [timepoint |-> 3 * (n - 1), seeing |-> -9999,
                                   transparency |-> -9999, lifted_index |-> -9999]
    /\ \A m, n \in 1..Len(astro.attempts) :
          m < n => astro.attempts[n] - astro.attempts[m] > DEFAULT_CACHE_TIMEOUT

====
